---------------------------- MODULE Spec2Model ----------------------------
(***************************************************************************)
(* Model of the instance storage of the renderer (src/src/renderer.rs):    *)
(* the DenseMap store (values / keys / indices), the slab that backs its   *)
(* key table, and the Renderer operations add_model, add_instance and      *)
(* remove_instance that drive one DenseMap per model; and of the           *)
(* TimeStepper of the event loop (src/src/main.rs).                        *)
(*                                                                         *)
(* Indices and keys are 0-based as in the source; TLA+ sequences are       *)
(* 1-based, so element i of a Vec v is v[i + 1].                           *)
(***************************************************************************)
EXTENDS Integers, Sequences, FiniteSets

VARIABLES
    dense,      \* StoreSpec: one DenseMap<T> on its own
    dLive,      \* ghost: key -> value, for keys inserted and not yet removed
    dRemoved,   \* ghost: keys that some successful remove was called with
    dOp,        \* ghost: the last call on dense, its arguments and outcome
    dInserts,   \* ghost: number of insert calls so far
    scen,       \* ghost: progress of the call history along the scenario
    models,     \* Spec: Renderer.models, the Vec<ModelBuffers>
    rOp,        \* ghost: the last call on the renderer and its outcome
    nAdd,       \* ghost: per model, the add_instance calls that succeeded
    nRem,       \* ghost: per model, the remove_instance calls that succeeded
    rRemoved,   \* ghost: handles some successful remove_instance was given
    calls,      \* ghost: WrapSpec: number of calls made on the renderer
    stepper,    \* StepperSpec, LoopSpec: the TimeStepper of main
    sStart,     \* ghost: the instant TimeStepper::new was given
    sLatest,    \* ghost: the latest instant advance was given
    sTicks,     \* ghost: number of tick calls that returned true
    sRet,       \* ghost: what the last tick call returned
    sPc         \* LoopSpec: where the event handler of main stands

storeVars == <<dense, dLive, dRemoved, dOp, dInserts, scen>>

rendererVars == <<models, rOp, nAdd, nRem, rRemoved>>

stepperVars == <<stepper, sStart, sLatest, sTicks, sRet, sPc>>

vars == <<dense, dLive, dRemoved, dOp, dInserts, scen,
          models, rOp, nAdd, nRem, rRemoved, calls,
          stepper, sStart, sLatest, sTicks, sRet, sPc>>

(***************************************************************************)
(* Bounds                                                                  *)
(***************************************************************************)
\* insert calls on the standalone store
MaxInserts == 4

\* instance values a caller may pass
Values == {"A", "B", "C", "D"}

\* keys a caller may pass to remove: every key the slab can have issued
\* within the bound, and one it cannot
KeyRange == 0..MaxInserts

\* add_model calls on the renderer
MaxModels == 2

\* successful add_instance calls on the renderer, over all models
MaxAdds == 2

\* instance records a caller may pass to add_instance
Instances == {"A", "B"}

\* model ids a caller may pass: every id add_model can have returned within
\* the bound, and one it cannot
ModelIds == 0..MaxModels

\* handles a caller may pass to remove_instance
Handles == [model : ModelIds, index : 0..MaxAdds]

\* a conversion to u16: x as u16
U16(x) == x % 65536

\* the bytes add_model allocates for a model's instance buffer
InstanceBufferBytes == 16384

\* the bytes of one Instance record: position and color, three f32 each
InstanceBytes == 24

\* add_instance calls of the run that fills one model (FillSpec)
MaxFill == 700

\* the largest u16, the type of both fields of InstanceHandle
U16Max == 65535

\* calls on a renderer that already holds U16Max models or instances
MaxCalls == 3

\* the step of the simulation in main, in milliseconds
MainDt == 16

\* the latest instant the clock shows, in milliseconds
MaxTime == 6

\* the largest step a TimeStepper is built with, in milliseconds
MaxDt == 3

\* instants the clock may show when the TimeStepper is built
StartTimes == {0, 1}

\* tick calls counted; a stepper with dt > 0 never gets that far
MaxTicks == MaxTime

(***************************************************************************)
(* slab::Slab<usize>: entries is the Vec<Entry>; an entry is               *)
(* Occupied(val) or Vacant(next); next heads the free list.                *)
(***************************************************************************)
Occupied(val) == [occ |-> TRUE, val |-> val]

Vacant(nxt) == [occ |-> FALSE, val |-> nxt]

SlabNew == [entries |-> <<>>, next |-> 0]

\* Slab::contains / Slab::get(key).is_some()
SlabContains(s, key) ==
    /\ key < Len(s.entries)
    /\ s.entries[key + 1].occ

\* Slab::get(key), for a key the slab contains
SlabGet(s, key) == s.entries[key + 1].val

\* the key Slab::insert returns: the head of the free list
SlabVacantKey(s) == s.next

\* an insert that always takes a new slot at the end and drops the free list
SlabInsertPush(s, val) ==
    [entries |-> Append(s.entries, Occupied(val)),
     next    |-> Len(s.entries) + 1]

\* Slab::insert(val)
SlabInsert(s, val) ==
    LET key == s.next IN
    IF key = Len(s.entries)
    THEN [entries |-> Append(s.entries, Occupied(val)), next |-> key + 1]
    ELSE [entries |-> [s.entries EXCEPT ![key + 1] = Occupied(val)],
          next    |-> s.entries[key + 1].val]

\* IndexMut: slab[key] = val, for a key the slab contains
SlabSet(s, key, val) ==
    [s EXCEPT !.entries[key + 1] = Occupied(val)]

\* Slab::remove(key), for a key the slab contains
SlabRemove(s, key) ==
    [entries |-> [s.entries EXCEPT ![key + 1] = Vacant(s.next)],
     next    |-> key]

\* the occupied keys of a slab
SlabKeys(s) == {k \in 0..(Len(s.entries) - 1) : s.entries[k + 1].occ}

(***************************************************************************)
(* Vec<T>                                                                  *)
(***************************************************************************)
\* Vec::remove(index): drops the element and shifts the tail down
ShiftRemove(v, index) ==
    [j \in 1..(Len(v) - 1) |-> IF j <= index THEN v[j] ELSE v[j + 1]]

\* Vec::swap_remove(index): the last element takes the place of the removed
SwapRemove(v, index) ==
    IF index + 1 = Len(v) THEN SubSeq(v, 1, Len(v) - 1)
    ELSE [SubSeq(v, 1, Len(v) - 1) EXCEPT ![index + 1] = v[Len(v)]]

(***************************************************************************)
(* DenseMap<T>                                                             *)
(***************************************************************************)
DenseNew == [values |-> <<>>, keys |-> <<>>, indices |-> SlabNew]

\* DenseMap::values
DenseValues(dm) == dm.values

\* an insert that returns the index of the new element for its key
DenseInsertKeyIndex(dm) == Len(dm.values)

\* the key DenseMap::insert returns
DenseInsertKey(dm) == SlabVacantKey(dm.indices)

\* DenseMap::insert without the push onto keys
DenseInsertNoKey(dm, value) ==
    [values  |-> Append(dm.values, value),
     keys    |-> dm.keys,
     indices |-> SlabInsert(dm.indices, Len(dm.values))]

\* DenseMap::insert
DenseInsert(dm, value) ==
    LET index == Len(dm.values)
        key   == SlabVacantKey(dm.indices)
    IN  [values  |-> Append(dm.values, value),
         keys    |-> Append(dm.keys, key),
         indices |-> SlabInsert(dm.indices, index)]

\* a remove that takes any slot the slab ever allocated for an occupied one
DenseRemoveOutcomeLax(dm, key) ==
    IF key >= Len(dm.indices.entries) THEN "InvalidKey"
    ELSE IF dm.keys = <<>> THEN "UnwrapNone"
    ELSE IF ~SlabContains(dm.indices, dm.keys[Len(dm.keys)]) THEN "SlabIndex"
    ELSE IF SlabGet(dm.indices, key) >= Len(dm.values) THEN "SwapRemoveValues"
    ELSE IF SlabGet(dm.indices, key) >= Len(dm.keys) THEN "SwapRemoveKeys"
    ELSE "ok"

\* how DenseMap::remove(key) ends: "ok", or the panic that stops it
DenseRemoveOutcome(dm, key) ==
    IF ~SlabContains(dm.indices, key) THEN "InvalidKey"
    ELSE IF dm.keys = <<>> THEN "UnwrapNone"
    ELSE IF ~SlabContains(dm.indices, dm.keys[Len(dm.keys)]) THEN "SlabIndex"
    ELSE IF SlabGet(dm.indices, key) >= Len(dm.values) THEN "SwapRemoveValues"
    ELSE IF SlabGet(dm.indices, key) >= Len(dm.keys) THEN "SwapRemoveKeys"
    ELSE "ok"

\* a remove that forgets to rebind the moved element
RebindNot(indices, swap_key, index) == indices

\* the rebinding of the moved element's key: self.indices[swap_key] = index
Rebind(indices, swap_key, index) == SlabSet(indices, swap_key, index)

\* a remove that leaves the key occupied
ReleaseNot(indices, key) == indices

\* the release of the removed key: self.indices.remove(key)
Release(indices, key) == SlabRemove(indices, key)

\* the removal from a Vec that DenseMap::remove uses
VecRemove(v, index) == SwapRemove(v, index)

\* DenseMap::remove: the store it leaves, also when it panics on the way
DenseRemove(dm, key) ==
    LET out == DenseRemoveOutcome(dm, key) IN
    IF out \in {"InvalidKey", "UnwrapNone", "SlabIndex"} THEN dm
    ELSE
        LET index    == SlabGet(dm.indices, key)
            swap_key == dm.keys[Len(dm.keys)]
            rebound  == Rebind(dm.indices, swap_key, index)
        IN  IF out = "SwapRemoveValues" THEN [dm EXCEPT !.indices = rebound]
            ELSE IF out = "SwapRemoveKeys"
            THEN [dm EXCEPT !.indices = rebound,
                            !.values = VecRemove(dm.values, index)]
            ELSE [values  |-> VecRemove(dm.values, index),
                  keys    |-> VecRemove(dm.keys, index),
                  indices |-> Release(rebound, key)]

(***************************************************************************)
(* Renderer: add_model, add_instance, remove_instance                      *)
(***************************************************************************)
\* the ModelBuffers that add_model pushes; data is the part of the instance
\* buffer written so far, the rest of the buffer is zero bytes
NewModelBuffers ==
    [instance_buffer       |-> [bytes |-> InstanceBufferBytes, data |-> <<>>],
     instance_buffer_dirty |-> FALSE,
     instances             |-> DenseNew]

\* Renderer::add_model: the models after the call and the id returned
add_model(ms) ==
    [models |-> Append(ms, NewModelBuffers), index |-> U16(Len(ms))]

\* an add_instance that clamps the model id to the last model
add_instance_clamped(ms, model, instance) ==
    IF ms = <<>>
    THEN [models |-> ms, outcome |-> "IndexOutOfBounds", index |-> 0]
    ELSE LET m == IF model >= Len(ms) THEN Len(ms) ELSE model + 1 IN
         [models  |-> [ms EXCEPT ![m] =
                          [@ EXCEPT !.instances = DenseInsert(@, instance),
                                    !.instance_buffer_dirty = TRUE]],
          outcome |-> "ok",
          index   |-> U16(DenseInsertKey(ms[m].instances))]

\* an add_instance that marks every model dirty
add_instance_dirty_all(ms, model, instance) ==
    IF model >= Len(ms)
    THEN [models  |-> ms,
          outcome |-> IF model > Len(ms) THEN "AssertFailed"
                      ELSE "IndexOutOfBounds",
          index   |-> 0]
    ELSE [models  |-> [m \in 1..Len(ms) |->
                          IF m = model + 1
                          THEN [ms[m] EXCEPT
                                   !.instances = DenseInsert(@, instance),
                                   !.instance_buffer_dirty = TRUE]
                          ELSE [ms[m] EXCEPT !.instance_buffer_dirty = TRUE]],
          outcome |-> "ok",
          index   |-> U16(DenseInsertKey(ms[model + 1].instances))]

\* Renderer::add_instance: the models after the call, how the call ends, and
\* the index field of the handle returned
add_instance(ms, model, instance) ==
    IF ~(model <= Len(ms))
    THEN [models |-> ms, outcome |-> "AssertFailed", index |-> 0]
    ELSE IF model >= Len(ms)
    THEN [models |-> ms, outcome |-> "IndexOutOfBounds", index |-> 0]
    ELSE [models  |-> [ms EXCEPT ![model + 1] =
                          [@ EXCEPT !.instances = DenseInsert(@, instance),
                                    !.instance_buffer_dirty = TRUE]],
          outcome |-> "ok",
          index   |-> U16(DenseInsertKey(ms[model + 1].instances))]

\* a remove_instance that counts its elements without taking one out
remove_instance_kept(ms, instance) ==
    IF instance.model >= Len(ms)
    THEN [models |-> ms, outcome |-> "IndexOutOfBounds"]
    ELSE [models  |-> ms,
          outcome |-> DenseRemoveOutcome(ms[instance.model + 1].instances,
                                         instance.index)]

\* Renderer::remove_instance: the models after the call and how it ends
remove_instance(ms, instance) ==
    IF instance.model >= Len(ms)
    THEN [models |-> ms, outcome |-> "IndexOutOfBounds"]
    ELSE [models  |-> [ms EXCEPT ![instance.model + 1].instances =
                          DenseRemove(@, instance.index)],
          outcome |-> DenseRemoveOutcome(ms[instance.model + 1].instances,
                                         instance.index)]

\* Queue::write_buffer(buffer, 0, data): data overwrites the buffer from
\* offset 0, what lies behind it stays
WriteBuffer(buffer, data) ==
    [buffer EXCEPT !.data =
        [j \in 1..(IF Len(data) > Len(@) THEN Len(data) ELSE Len(@)) |->
            IF j <= Len(data) THEN data[j] ELSE @[j]]]

\* the per-frame sync: every dirty model's dense array is copied to its
\* instance buffer and its dirty flag cleared
sync(ms) ==
    [m \in 1..Len(ms) |->
        IF ms[m].instance_buffer_dirty
        THEN [ms[m] EXCEPT
                 !.instance_buffer =
                     WriteBuffer(@, DenseValues(ms[m].instances)),
                 !.instance_buffer_dirty = FALSE]
        ELSE ms[m]]

\* record j (1-based) of an instance buffer, as the draw reads it
BufferRecord(buffer, j) ==
    IF j <= Len(buffer.data) THEN buffer.data[j] ELSE "zero"

(***************************************************************************)
(* TimeStepper: new, advance, tick. Instants and durations are counted in  *)
(* milliseconds.                                                           *)
(***************************************************************************)
\* TimeStepper::new
TimeStepperNew(time, dt) ==
    [current |-> time, dt |-> dt, residual |-> 0]

\* an advance that forgets the residual it had
advance_reset(s, time) ==
    [s EXCEPT !.residual = time - s.current, !.current = time]

\* TimeStepper::advance
advance(s, time) ==
    [s EXCEPT !.residual = @ + (time - s.current), !.current = time]

\* a tick that reports a step without taking it off the residual
tick_kept(s) ==
    IF s.residual > s.dt
    THEN [stepper |-> s, ret |-> TRUE]
    ELSE [stepper |-> s, ret |-> FALSE]

\* TimeStepper::tick: the stepper after the call and the value returned
tick(s) ==
    IF s.residual > s.dt
    THEN [stepper |-> [s EXCEPT !.residual = @ - s.dt], ret |-> TRUE]
    ELSE [stepper |-> s, ret |-> FALSE]

(***************************************************************************)
(* The scenario of the specification, followed along the call history:     *)
(* insert A, B, C; remove the key of A; insert D; remove the key of B.     *)
(***************************************************************************)
ScenOff == [step |-> -1, keys |-> <<>>]

ScenAdvance(s, op) ==
    IF s.step \in {0, 1, 2, 4} /\ op.kind = "insert"
       /\ op.value = <<"A", "B", "C", "-", "D">>[s.step + 1]
    THEN [step |-> s.step + 1, keys |-> Append(s.keys, op.key)]
    ELSE IF s.step \in {3, 5} /\ op.kind = "remove" /\ op.outcome = "ok"
            /\ op.key = s.keys[IF s.step = 3 THEN 1 ELSE 2]
    THEN [s EXCEPT !.step = s.step + 1]
    ELSE ScenOff

(***************************************************************************)
(* StoreSpec: a DenseMap under any sequence of insert and remove calls     *)
(***************************************************************************)
StoreInit ==
    /\ dense = DenseNew
    /\ dLive = [k \in {} |-> "A"]
    /\ dRemoved = {}
    /\ dOp = [kind |-> "new", key |-> 0, value |-> "-", outcome |-> "ok",
             index |-> 0, len |-> 0]
    /\ dInserts = 0
    /\ scen = [step |-> 0, keys |-> <<>>]

RendererInit ==
    /\ models = <<>>
    /\ rOp = [kind |-> "new", model |-> 0, index |-> 0, value |-> "-",
              outcome |-> "ok"]
    /\ nAdd = <<>>
    /\ nRem = <<>>
    /\ rRemoved = {}
    /\ calls = 0

\* the TimeStepper as main builds it, before the event loop runs
StepperMain ==
    /\ stepper = TimeStepperNew(0, MainDt)
    /\ sStart = 0
    /\ sLatest = 0
    /\ sTicks = 0
    /\ sRet = FALSE
    /\ sPc = "poll"

Init == StoreInit /\ RendererInit /\ StepperMain

Insert(value) ==
    /\ dInserts < MaxInserts
    /\ LET key == DenseInsertKey(dense)
           op  == [kind |-> "insert", key |-> key, value |-> value,
                   outcome |-> "ok", index |-> Len(dense.values),
                   len |-> Len(dense.values)]
       IN  /\ dense' = DenseInsert(dense, value)
           /\ dLive' = [k \in DOMAIN dLive \cup {key} |->
                           IF k = key THEN value ELSE dLive[k]]
           /\ dOp' = op
           /\ scen' = ScenAdvance(scen, op)
    /\ dInserts' = dInserts + 1
    /\ UNCHANGED dRemoved
    /\ UNCHANGED <<rendererVars, calls, stepperVars>>

Remove(key) ==
    LET out == DenseRemoveOutcome(dense, key)
        op  == [kind |-> "remove", key |-> key, value |-> "-",
                outcome |-> out,
                index |-> IF SlabContains(dense.indices, key)
                          THEN SlabGet(dense.indices, key) ELSE -1,
                len |-> Len(dense.values)]
    IN  /\ dense' = DenseRemove(dense, key)
        /\ dOp' = op
        /\ scen' = ScenAdvance(scen, op)
        /\ IF out = "ok"
           THEN /\ dLive' = [k \in DOMAIN dLive \ {key} |-> dLive[k]]
                /\ dRemoved' = dRemoved \cup {key}
           ELSE UNCHANGED <<dLive, dRemoved>>
        /\ UNCHANGED dInserts
        /\ UNCHANGED <<rendererVars, calls, stepperVars>>

StoreNext ==
    \/ \E value \in Values : Insert(value)
    \/ \E key \in KeyRange : Remove(key)

StoreSpec == Init /\ [][StoreNext]_vars

(***************************************************************************)
(* Spec: a Renderer under any sequence of add_model, add_instance,         *)
(* remove_instance and per-frame sync                                      *)
(***************************************************************************)
RECURSIVE Sum(_)
Sum(v) == IF v = <<>> THEN 0 ELSE v[1] + Sum(Tail(v))

AddModel ==
    /\ Len(models) < MaxModels
    /\ LET r == add_model(models) IN
       /\ models' = r.models
       /\ rOp' = [kind |-> "add_model", model |-> r.index, index |-> 0,
                  value |-> "-", outcome |-> "ok"]
    /\ nAdd' = Append(nAdd, 0)
    /\ nRem' = Append(nRem, 0)
    /\ UNCHANGED rRemoved
    /\ UNCHANGED <<storeVars, calls, stepperVars>>

AddInstance(model, instance) ==
    /\ Sum(nAdd) < MaxAdds
    /\ LET r == add_instance(models, model, instance) IN
       /\ models' = r.models
       /\ rOp' = [kind |-> "add_instance", model |-> model,
                  index |-> r.index, value |-> instance,
                  outcome |-> r.outcome]
       /\ nAdd' = [m \in 1..Len(nAdd) |->
                     IF r.outcome = "ok" /\ m = model + 1
                     THEN nAdd[m] + 1 ELSE nAdd[m]]
    /\ UNCHANGED <<nRem, rRemoved>>
    /\ UNCHANGED <<storeVars, calls, stepperVars>>

RemoveInstance(instance) ==
    /\ LET r == remove_instance(models, instance) IN
       /\ models' = r.models
       /\ rOp' = [kind |-> "remove_instance", model |-> instance.model,
                  index |-> instance.index, value |-> "-",
                  outcome |-> r.outcome]
       /\ nRem' = [m \in 1..Len(nRem) |->
                     IF r.outcome = "ok" /\ m = instance.model + 1
                     THEN nRem[m] + 1 ELSE nRem[m]]
       /\ rRemoved' = IF r.outcome = "ok"
                      THEN rRemoved \cup {instance} ELSE rRemoved
    /\ UNCHANGED nAdd
    /\ UNCHANGED <<storeVars, calls, stepperVars>>

Sync ==
    /\ models' = sync(models)
    /\ rOp' = [kind |-> "sync", model |-> 0, index |-> 0, value |-> "-",
               outcome |-> "ok"]
    /\ UNCHANGED <<nAdd, nRem, rRemoved>>
    /\ UNCHANGED <<storeVars, calls, stepperVars>>

\* add_instance on the first model, as often as MaxFill allows
Fill(instance) ==
    /\ Sum(nAdd) < MaxFill
    /\ LET r == add_instance(models, 0, instance) IN
       /\ models' = r.models
       /\ rOp' = [kind |-> "add_instance", model |-> 0,
                  index |-> r.index, value |-> instance,
                  outcome |-> r.outcome]
       /\ nAdd' = [m \in 1..Len(nAdd) |->
                     IF r.outcome = "ok" /\ m = 1
                     THEN nAdd[m] + 1 ELSE nAdd[m]]
    /\ UNCHANGED <<nRem, rRemoved>>
    /\ UNCHANGED <<storeVars, calls, stepperVars>>

Next ==
    \/ AddModel
    \/ \E model \in ModelIds, instance \in Instances :
          AddInstance(model, instance)
    \/ \E instance \in Handles : RemoveInstance(instance)
    \/ Sync

Spec == Init /\ [][Next]_vars

(***************************************************************************)
(* FillSpec: a Renderer whose first model is given instance after instance *)
(***************************************************************************)
FillNext ==
    \/ AddModel
    \/ \E instance \in {"A"} : Fill(instance)

FillSpec == Init /\ [][FillNext]_vars


(***************************************************************************)
(* WrapSpec: a Renderer after U16Max add_model calls, or after one         *)
(* add_model call and U16Max add_instance calls, under a few more calls    *)
(***************************************************************************)
\* the DenseMap after n insert calls of value on a new DenseMap
DenseFilled(n, value) ==
    [values  |-> [i \in 1..n |-> value],
     keys    |-> [i \in 1..n |-> i - 1],
     indices |-> [entries |-> [i \in 1..n |-> Occupied(i - 1)], next |-> n]]

\* the ModelBuffers after n add_instance calls of value on a new model
ModelFilled(n, value) ==
    [NewModelBuffers EXCEPT !.instances = DenseFilled(n, value),
                            !.instance_buffer_dirty = (n > 0)]

WrapInit ==
    /\ StoreInit
    /\ rOp = [kind |-> "new", model |-> 0, index |-> 0, value |-> "-",
              outcome |-> "ok"]
    /\ rRemoved = {}
    /\ calls = 0
    /\ StepperMain
    /\ \/ /\ models = [m \in 1..U16Max |-> NewModelBuffers]
          /\ nAdd = [m \in 1..U16Max |-> 0]
          /\ nRem = [m \in 1..U16Max |-> 0]
       \/ /\ models = <<ModelFilled(U16Max, "A")>>
          /\ nAdd = <<U16Max>>
          /\ nRem = <<0>>

WrapAddModel ==
    /\ calls < MaxCalls
    /\ LET r == add_model(models) IN
       /\ models' = r.models
       /\ rOp' = [kind |-> "add_model", model |-> r.index, index |-> 0,
                  value |-> "-", outcome |-> "ok"]
    /\ nAdd' = Append(nAdd, 0)
    /\ nRem' = Append(nRem, 0)
    /\ calls' = calls + 1
    /\ UNCHANGED rRemoved
    /\ UNCHANGED <<storeVars, stepperVars>>

WrapAddInstance(model, instance) ==
    /\ calls < MaxCalls
    /\ LET r == add_instance(models, model, instance) IN
       /\ models' = r.models
       /\ rOp' = [kind |-> "add_instance", model |-> model,
                  index |-> r.index, value |-> instance,
                  outcome |-> r.outcome]
       /\ nAdd' = IF r.outcome = "ok"
                  THEN [nAdd EXCEPT ![model + 1] = @ + 1] ELSE nAdd
    /\ calls' = calls + 1
    /\ UNCHANGED <<nRem, rRemoved>>
    /\ UNCHANGED <<storeVars, stepperVars>>

WrapRemoveInstance(instance) ==
    /\ calls < MaxCalls
    /\ LET r == remove_instance(models, instance) IN
       /\ models' = r.models
       /\ rOp' = [kind |-> "remove_instance", model |-> instance.model,
                  index |-> instance.index, value |-> "-",
                  outcome |-> r.outcome]
       /\ nRem' = IF r.outcome = "ok"
                  THEN [nRem EXCEPT ![instance.model + 1] = @ + 1] ELSE nRem
       /\ rRemoved' = IF r.outcome = "ok"
                      THEN rRemoved \cup {instance} ELSE rRemoved
    /\ calls' = calls + 1
    /\ UNCHANGED nAdd
    /\ UNCHANGED <<storeVars, stepperVars>>

WrapNext ==
    \/ WrapAddModel
    \/ \E instance \in {"B"} : WrapAddInstance(0, instance)
    \/ \E index \in {0, 1} :
          WrapRemoveInstance([model |-> 0, index |-> index])

WrapSpec == WrapInit /\ [][WrapNext]_vars

(***************************************************************************)
(* StepperSpec: a TimeStepper under any sequence of advance and tick calls *)
(* whose instants do not go back                                           *)
(***************************************************************************)
StepperInit ==
    /\ StoreInit
    /\ RendererInit
    /\ \E time \in StartTimes, dt \in 0..MaxDt :
          /\ stepper = TimeStepperNew(time, dt)
          /\ sStart = time
          /\ sLatest = time
    /\ sTicks = 0
    /\ sRet = FALSE
    /\ sPc = "poll"

\* advance(time), time read from a clock that does not go back
Advance(time) ==
    /\ time >= stepper.current
    /\ stepper' = advance(stepper, time)
    /\ sLatest' = time
    /\ UNCHANGED <<sStart, sTicks, sRet, sPc>>
    /\ UNCHANGED <<storeVars, rendererVars, calls>>

Tick ==
    /\ sTicks < MaxTicks
    /\ LET r == tick(stepper) IN
       /\ stepper' = r.stepper
       /\ sRet' = r.ret
       /\ sTicks' = IF r.ret THEN sTicks + 1 ELSE sTicks
    /\ UNCHANGED <<sStart, sLatest, sPc>>
    /\ UNCHANGED <<storeVars, rendererVars, calls>>

StepperNext ==
    \/ \E time \in 0..MaxTime : Advance(time)
    \/ Tick

StepperSpec == StepperInit /\ [][StepperNext]_vars

(***************************************************************************)
(* LoopSpec: the event handler of main: stepper.advance(Instant::now()),   *)
(* then while stepper.tick() {}                                            *)
(***************************************************************************)
\* stepper.advance(Instant::now()), then on to the while loop
LoopAdvance(time) ==
    /\ sPc = "poll"
    /\ time >= stepper.current
    /\ stepper' = advance(stepper, time)
    /\ sLatest' = time
    /\ sPc' = "while"
    /\ UNCHANGED <<sStart, sTicks, sRet>>
    /\ UNCHANGED <<storeVars, rendererVars, calls>>

\* one evaluation of the condition of while stepper.tick() {}
LoopTick ==
    /\ sPc = "while"
    /\ sTicks < MaxTicks
    /\ LET r == tick(stepper) IN
       /\ stepper' = r.stepper
       /\ sRet' = r.ret
       /\ sTicks' = IF r.ret THEN sTicks + 1 ELSE sTicks
       /\ sPc' = IF r.ret THEN "while" ELSE "poll"
    /\ UNCHANGED <<sStart, sLatest>>
    /\ UNCHANGED <<storeVars, rendererVars, calls>>

LoopNext ==
    \/ \E time \in 0..MaxTime : LoopAdvance(time)
    \/ LoopTick

LoopSpec == StepperInit /\ [][LoopNext]_vars

\* the handler is sequential code: once in the while loop it goes on
\* evaluating tick
LoopFairSpec == LoopSpec /\ WF_vars(LoopTick)

\* the fill of FillSpec leaves the first model as ModelFilled describes it
FillShape ==
    Len(models) >= 1 => models[1] = ModelFilled(nAdd[1], "A")

(***************************************************************************)
(* Claims about DenseMap (checked under StoreSpec)                         *)
(***************************************************************************)
\* number of positions of a sequence that hold x
Count(v, x) == Cardinality({j \in 1..Len(v) : v[j] = x})

\* C1: density invariant. In every state reached from new() by insert and
\* remove calls, values and keys have the same length and the slot table
\* maps keys[i] back to i for every index i of values.
C1_Density ==
    /\ Len(dense.values) = Len(dense.keys)
    /\ \A i \in 0..(Len(dense.values) - 1) :
          /\ i < Len(dense.keys)
          /\ SlabContains(dense.indices, dense.keys[i + 1])
          /\ SlabGet(dense.indices, dense.keys[i + 1]) = i

\* C1 witness: a successful remove has left at least two elements behind.
C1_Witness ==
    /\ dOp.kind = "remove" /\ dOp.outcome = "ok"
    /\ Len(dense.values) >= 2

\* C2: handle stability. Every key returned by insert(v) and not yet passed
\* to a successful remove is found by indices.get, and the value at the
\* index it is bound to is v.
C2_HandleStable ==
    \A k \in DOMAIN dLive :
        /\ SlabContains(dense.indices, k)
        /\ SlabGet(dense.indices, k) < Len(dense.values)
        /\ dense.values[SlabGet(dense.indices, k) + 1] = dLive[k]

\* C2 witness: after the removal of another key, a live key is bound to an
\* index other than the one it was inserted at, next to other live keys.
C2_Witness ==
    /\ dOp.kind = "remove" /\ dOp.outcome = "ok"
    /\ Cardinality(DOMAIN dLive) >= 2
    /\ \E k \in DOMAIN dLive :
          /\ SlabContains(dense.indices, k)
          /\ SlabGet(dense.indices, k) # k

\* C3: no gaps. values holds exactly the multiset of the elements inserted
\* and not yet removed, and its length is the number of occupied keys of
\* the slot table.
C3_NoGaps ==
    /\ \A x \in Values :
          Count(dense.values, x)
              = Cardinality({k \in DOMAIN dLive : dLive[k] = x})
    /\ Len(dense.values) = Cardinality(SlabKeys(dense.indices))

\* C3 witness: after a removal, the store holds the same value twice and a
\* vacant slot.
C3_Witness ==
    /\ dRemoved # {}
    /\ Len(dense.values) >= 2
    /\ dense.values[1] = dense.values[2]
    /\ Len(dense.indices.entries) > Len(dense.values)

\* the step of C4: what a call in the claim's case must do
C4_SwapStep ==
    (/\ dOp'.kind = "remove" /\ dOp'.outcome = "ok"
     /\ SlabContains(dense.indices, dOp'.key)
     /\ SlabGet(dense.indices, dOp'.key) < Len(dense.values) - 1)
    => LET i    == SlabGet(dense.indices, dOp'.key)
           last == Len(dense.values)
       IN  /\ i < Len(dense'.values)
           /\ i < Len(dense'.keys)
           /\ dense'.values[i + 1] = dense.values[last]
           /\ dense'.keys[i + 1] = dense.keys[last]
           /\ SlabContains(dense'.indices, dense.keys[last])
           /\ SlabGet(dense'.indices, dense.keys[last]) = i

\* C4: swap correctness. When remove(k) succeeds with k bound to an index i
\* that is not the last, the value and key that were at the last index are
\* at index i afterwards, and the slot table binds that key to i.
C4_Swap == [][C4_SwapStep]_vars

\* C4 witness: a successful remove of a key that was bound to an index
\* before the last one.
C4_Witness ==
    /\ dOp.kind = "remove" /\ dOp.outcome = "ok"
    /\ dOp.index >= 0
    /\ dOp.index < dOp.len - 1

\* the step of C5: what a call in the claim's case must do
C5_FailStep ==
    (/\ dOp'.kind = "remove"
     /\ dOp'.key \in dRemoved
     /\ dOp'.key \notin DOMAIN dLive)
    => /\ dOp'.outcome = "InvalidKey"
       /\ dense' = dense

\* C5: idempotent failure. A remove of a key that was removed (and not
\* issued again since) fails with InvalidKey, and leaves values, keys and
\* the slot table as they were.
C5_IdempotentFailure == [][C5_FailStep]_vars

\* C5 witness: a remove of a removed key has failed with InvalidKey.
C5_Witness ==
    /\ dOp.kind = "remove" /\ dOp.outcome = "InvalidKey"
    /\ dOp.key \in dRemoved
    /\ dOp.key \notin DOMAIN dLive
    /\ Len(dense.values) >= 1

\* C7: the concrete scenario. From an empty store, insert A, B, C gives
\* values = [A,B,C]; remove(k1) gives [C,B] with k3 bound to 0; insert D
\* gives [C,B,D]; remove(k2) gives [C,D].
C7_Scenario ==
    /\ scen.step = 3 => dense.values = <<"A", "B", "C">>
    /\ scen.step = 4 =>
          /\ dense.values = <<"C", "B">>
          /\ SlabContains(dense.indices, scen.keys[3])
          /\ SlabGet(dense.indices, scen.keys[3]) = 0
    /\ scen.step = 5 => dense.values = <<"C", "B", "D">>
    /\ scen.step = 6 => dense.values = <<"C", "D">>

\* C7 witness: the call history is the whole scenario.
C7_Witness == scen.step = 6

\* the step of C12: the key an insert returns is no key live at the call
C12_FreshStep ==
    dOp'.kind = "insert" =>
        /\ dOp'.key \notin DOMAIN dLive
        /\ \A i \in 1..Len(dense.keys) : dense.keys[i] # dOp'.key

\* the state of C12: no two positions of the store hold the same key
C12_NoSharedKey ==
    \A i, j \in 1..Len(dense.keys) : dense.keys[i] = dense.keys[j] => i = j

\* C12: key uniqueness. The key insert returns differs from every key live
\* at the call, so no two live elements ever share a key; a key is issued
\* again only after it was removed.
C12_KeyUnique == [][C12_FreshStep]_vars /\ []C12_NoSharedKey

\* C12 witness: an insert has been given a key that was removed before,
\* while two other keys were live.
C12_Witness ==
    /\ dOp.kind = "insert"
    /\ dOp.key \in dRemoved
    /\ Cardinality(DOMAIN dLive) >= 3

\* the step of C14: a successful remove of the key bound to the last index
C14_LastStep ==
    (/\ dOp'.kind = "remove" /\ dOp'.outcome = "ok"
     /\ SlabContains(dense.indices, dOp'.key)
     /\ SlabGet(dense.indices, dOp'.key) = Len(dense.values) - 1)
    => /\ dense'.values = SubSeq(dense.values, 1, Len(dense.values) - 1)
       /\ dense'.keys = SubSeq(dense.keys, 1, Len(dense.keys) - 1)
       /\ ~SlabContains(dense'.indices, dOp'.key)
       /\ \A k \in DOMAIN dLive \ {dOp'.key} :
             /\ SlabContains(dense.indices, k)
             /\ SlabContains(dense'.indices, k)
             /\ SlabGet(dense'.indices, k) = SlabGet(dense.indices, k)

\* the state of C14: with every live key removed the store is empty and
\* no slot is occupied
C14_NoLeak ==
    DOMAIN dLive = {} =>
        /\ dense.values = <<>>
        /\ dense.keys = <<>>
        /\ SlabKeys(dense.indices) = {}

\* C14: removing the element at the last index (also the only element)
\* relocates nothing: values and keys lose their last entry, every other
\* live key keeps its index, the removed key is vacant, and once every live
\* key is removed the store is empty with no occupied slot left.
C14_RemoveLast == [][C14_LastStep]_vars /\ []C14_NoLeak

\* C14 witness: the only element left was removed, after the removal of
\* two others had left it alone in the store.
C14_Witness ==
    /\ dOp.kind = "remove" /\ dOp.outcome = "ok"
    /\ dOp.index = dOp.len - 1
    /\ DOMAIN dLive = {}
    /\ Cardinality(dRemoved) >= 3

\* the step of C15: a successful remove of a key bound to index i
C15_FrameStep ==
    (/\ dOp'.kind = "remove" /\ dOp'.outcome = "ok"
     /\ SlabContains(dense.indices, dOp'.key))
    => LET i   == SlabGet(dense.indices, dOp'.key)
           len == Len(dense.values)
       IN  /\ Len(dense'.values) = len - 1
           /\ Len(dense'.keys) = Len(dense.keys) - 1
           /\ \A j \in 0..(len - 2) :
                 j # i =>
                    /\ j < Len(dense.keys)
                    /\ dense'.values[j + 1] = dense.values[j + 1]
                    /\ dense'.keys[j + 1] = dense.keys[j + 1]
                    /\ SlabContains(dense'.indices, dense.keys[j + 1])
                    /\ SlabGet(dense'.indices, dense.keys[j + 1]) = j

\* C15: frame of remove. A successful remove(k) with k bound to index i
\* changes only position i and the tail: every element at an index j with
\* j # i and j < len - 1 keeps its value, key and slot-table binding, and
\* values and keys get shorter by exactly one.
C15_RemoveFrame == [][C15_FrameStep]_vars

\* C15 witness: a successful remove from a store of four elements, of a key
\* bound to an index in the middle.
C15_Witness ==
    /\ dOp.kind = "remove" /\ dOp.outcome = "ok"
    /\ dOp.len >= 4
    /\ dOp.index >= 1
    /\ dOp.index < dOp.len - 1

\* the step of C16: an insert of a value
C16_FrameStep ==
    dOp'.kind = "insert" =>
        LET len == Len(dense.values) IN
        /\ dense'.values = Append(dense.values, dOp'.value)
        /\ dense'.keys = Append(dense.keys, dOp'.key)
        /\ SlabContains(dense'.indices, dOp'.key)
        /\ SlabGet(dense'.indices, dOp'.key) = len
        /\ \A j \in 1..Len(dense.keys) :
              /\ SlabContains(dense'.indices, dense.keys[j])
              /\ SlabGet(dense'.indices, dense.keys[j])
                    = SlabGet(dense.indices, dense.keys[j])

\* C16: frame of insert. insert(v) appends v at index len(values) and the
\* returned key at the same index of keys, binds the key to that index, and
\* leaves the value, key and binding of every element already stored.
C16_InsertFrame == [][C16_FrameStep]_vars

\* C16 witness: an insert into a store of two elements that took a key
\* from the free list.
C16_Witness ==
    /\ dOp.kind = "insert"
    /\ dOp.len >= 2
    /\ dOp.key \in dRemoved
    /\ dOp.key # dOp.index

(***************************************************************************)
(* Claims about the Renderer (checked under Spec)                          *)
(***************************************************************************)
\* the step of C6: what a call in the claim's case must do
C6_StaleStep ==
    (/\ rOp'.kind = "remove_instance"
     /\ [model |-> rOp'.model, index |-> rOp'.index] \in rRemoved)
    => /\ rOp'.outcome = "InvalidKey"
       /\ models' = models

\* C6: a removed handle stays invalid. Once remove_instance(h) has
\* succeeded, every later remove_instance(h) fails with InvalidKey and
\* removes nothing, whatever add_instance calls came in between.
C6_RemovedStaysInvalid == [][C6_StaleStep]_vars

\* C8: draw count. After N successful add_instance calls and M successful
\* remove_instance calls on one model, in any order, the instance count of
\* that model's draw call, the length of its dense values sequence, is N - M.
C8_DrawCount ==
    \A m \in 1..Len(models) :
        Len(DenseValues(models[m].instances)) = nAdd[m] - nRem[m]

\* C8 witness: a model with an instance left after two adds and a remove.
C8_Witness ==
    \E m \in 1..Len(models) :
        /\ nAdd[m] >= 2
        /\ nRem[m] >= 1
        /\ Len(DenseValues(models[m].instances)) >= 1

\* C9: the dirty flag covers staleness. Whenever a model's dirty flag is
\* clear, the first len(values) records of its instance buffer are its
\* dense values sequence.
C9_CleanMeansSynced ==
    \A m \in 1..Len(models) :
        ~models[m].instance_buffer_dirty =>
            \A j \in 1..Len(DenseValues(models[m].instances)) :
                BufferRecord(models[m].instance_buffer, j)
                    = DenseValues(models[m].instances)[j]

\* the step of C10: what a call in the claim's case must do
C10_OutOfRangeStep ==
    (/\ rOp'.kind \in {"add_instance", "remove_instance"}
     /\ rOp'.model >= Len(models))
    => /\ rOp'.outcome \in {"AssertFailed", "IndexOutOfBounds"}
       /\ models' = models

\* C10: a model id out of range is fatal and harmless. add_instance and
\* remove_instance with a model id that is not below the number of
\* registered models panic, and leave every model as it was.
C10_OutOfRange == [][C10_OutOfRangeStep]_vars

\* C10 witness: an add_instance with the id equal to the number of
\* registered models has panicked, with a model in use beside it.
C10_Witness ==
    /\ rOp.kind = "add_instance"
    /\ rOp.model = Len(models)
    /\ rOp.outcome = "IndexOutOfBounds"
    /\ \E m \in 1..Len(models) : models[m].instance_buffer_dirty

(***************************************************************************)
(* Claims about the instance buffer's capacity (checked under FillSpec)    *)
(***************************************************************************)
\* C11: capacity growth. For every model, in every reachable state, the
\* capacity of the instance buffer is at least the instance count times the
\* size of an instance record.
C11_CapacityCovers ==
    \A m \in 1..Len(models) :
        models[m].instance_buffer.bytes
            >= Len(DenseValues(models[m].instances)) * InstanceBytes

(***************************************************************************)
(* Further claims about the Renderer (checked under Spec)                  *)
(***************************************************************************)
\* the step of C18: an add_instance or remove_instance call on model m
C18_IsolationStep ==
    rOp'.kind \in {"add_instance", "remove_instance"} =>
        /\ Len(models') = Len(models)
        /\ \A j \in 1..Len(models) :
              j # rOp'.model + 1 => models'[j] = models[j]

\* C18: model isolation. add_instance(m, _) and remove_instance(h) with
\* h.model = m leave the store and the dirty flag of every other model as
\* they were, and do not change the number of registered models.
C18_Isolation == [][C18_IsolationStep]_vars

\* C18 witness: an instance was added to the second model while the first,
\* synced and clean, held an instance of its own.
C18_Witness ==
    /\ rOp.kind = "add_instance" /\ rOp.outcome = "ok"
    /\ rOp.model = 1
    /\ Len(models) = 2
    /\ Len(DenseValues(models[1].instances)) >= 1
    /\ ~models[1].instance_buffer_dirty
    /\ models[2].instance_buffer_dirty

(***************************************************************************)
(* Claims about the 16-bit ids and handle fields (checked under WrapSpec)  *)
(***************************************************************************)
\* the step of C13: an add_model call on a renderer of Len(models) models
C13_SequentialStep ==
    rOp'.kind = "add_model" =>
        /\ rOp'.model = Len(models)
        /\ Len(models') = Len(models) + 1
        /\ models'[Len(models')] = NewModelBuffers
        /\ SubSeq(models', 1, Len(models)) = models

\* C13: sequential, stable model ids. The k-th add_model call returns id
\* k - 1, the new model starts with an empty instance store and a clear dirty
\* flag, and every earlier entry of models stays where and what it was.
C13_SequentialIds == [][C13_SequentialStep]_vars

\* the step of C17: a successful add_instance(m, x) call
C17_RoundTripStep ==
    (rOp'.kind = "add_instance" /\ rOp'.outcome = "ok") =>
        LET m      == rOp'.model + 1
            before == models[m].instances
            after  == models'[m].instances
            handle == [model |-> rOp'.model, index |-> rOp'.index]
            back   == remove_instance(models', handle)
        IN  /\ DenseValues(after) = Append(DenseValues(before), rOp'.value)
            /\ models'[m].instance_buffer_dirty
            /\ rOp'.index = after.keys[Len(after.keys)]
            /\ back.outcome = "ok"
            /\ DenseValues(back.models[m].instances) = DenseValues(before)

\* C17: handle round trip. A successful add_instance(m, x) appends x to the
\* store of model m, sets the dirty flag of m, and returns a handle whose
\* index field is exactly the key the store allocated, so that
\* remove_instance on that handle takes out x and no other instance.
C17_HandleRoundTrip == [][C17_RoundTripStep]_vars

(***************************************************************************)
(* Claims about the TimeStepper (checked under LoopFairSpec, StepperSpec)  *)
(***************************************************************************)
\* the step of C19: one evaluation of tick in the while loop, with dt > 0
C19_TickStep ==
    (sPc = "while" /\ stepper.dt > 0) =>
        /\ sRet' => /\ stepper'.residual = stepper.residual - stepper.dt
                    /\ sTicks' = sTicks + 1
                    /\ sPc' = "while"
        /\ ~sRet' => /\ stepper'.residual <= stepper.dt
                     /\ stepper' = stepper
                     /\ sPc' = "poll"
        /\ stepper.residual = stepper.dt => ~sRet'

\* C19: the catch-up loop terminates. With dt > 0, after advance(t) the loop
\* while stepper.tick() {} ends after finitely many iterations; each tick
\* that returns true lowers residual by exactly dt; when tick returns false
\* residual <= dt holds, and a residual equal to dt gives no tick.
C19_LoopTerminates ==
    /\ [][C19_TickStep]_vars
    /\ (sPc = "while" /\ stepper.dt > 0) ~> (sPc = "poll" /\ ~sRet)

\* C19 witness: with dt > 0 the loop has ended after two or more true ticks
\* on a tick that found the residual equal to dt.
C19_Witness ==
    /\ sPc = "poll" /\ ~sRet
    /\ stepper.dt > 0
    /\ sTicks >= 2
    /\ stepper.residual = stepper.dt

\* C20: time is conserved. After any advance calls with instants that do not
\* go back and any tick calls, the true ticks times dt plus residual equal
\* the latest instant given to advance minus the instant given to new, and
\* current is the latest instant given to advance.
C20_TimeConserved ==
    /\ sTicks * stepper.dt + stepper.residual = sLatest - sStart
    /\ stepper.current = sLatest

\* C20 witness: an advance found a residual left over by earlier ticks and
\* added to it: the residual exceeds dt again after two true ticks.
C20_Witness ==
    /\ sTicks >= 2
    /\ sRet
    /\ stepper.dt > 0
    /\ stepper.residual > stepper.dt
    /\ sLatest > sStart

=============================================================================
